---- MODULE Spec2Model ----
(***************************************************************************)
(* Model of the "clip" command of the KeePassXC command line client:       *)
(* Clip::executeWithDatabase (src/cli/Clip.cpp).  One invocation of the    *)
(* command is one behaviour; every action is one block of the function.    *)
(*                                                                         *)
(* Strings that the code parses or matches (the timeout argument, the      *)
(* attribute names) are sequences of one-character strings.  Strings that  *)
(* are only copied or compared for equality (paths, secrets, message       *)
(* texts, the countdown line) are TLA+ strings.                            *)
(***************************************************************************)
EXTENDS Integers, Sequences, FiniteSets, TLC

----------------------------------------------------------------------------
(* Bounds of the model *)

\* the largest timeout, in seconds, given on the command line
MaxTimeout == 10

----------------------------------------------------------------------------
(* Program constants *)

EXIT_SUCCESS == 0
EXIT_FAILURE == 1

\* the range of the C++ type int, the result type of QString::toInt
IntMax == 2147483647
IntMin == (0 - IntMax) - 1

----------------------------------------------------------------------------
(* Strings and numbers *)

Digits == <<"0", "1", "2", "3", "4", "5", "6", "7", "8", "9">>

IsDigit(c) == \E i \in 1..10 : Digits[i] = c

DigitVal(c) == (CHOOSE i \in 1..10 : Digits[i] = c) - 1

IsSpace(c) == c = " "

RECURSIVE TrimLeft(_)
TrimLeft(s) ==
    IF s # <<>> /\ IsSpace(Head(s)) THEN TrimLeft(Tail(s)) ELSE s

RECURSIVE TrimRight(_)
TrimRight(s) ==
    IF s # <<>> /\ IsSpace(s[Len(s)])
    THEN TrimRight(SubSeq(s, 1, Len(s) - 1))
    ELSE s

\* the result of a conversion that left the range of int
Overflow == IntMax

\* one more digit d after the digits of the value -acc
NegAppendDigit(acc, d) ==
    IF acc = Overflow THEN Overflow
    ELSE IF acc < IntMin \div 10 + 1 THEN Overflow
    ELSE IF acc = IntMin \div 10 + 1 /\ d > 8 THEN Overflow
    ELSE 10 * acc - d

\* minus the value of a sequence of decimal digits, or Overflow when it is
\* below IntMin (accumulated downwards, as -IntMin is no int; the value of
\* the digits before the last is computed once)
RECURSIVE NegDigitsValue(_)
NegDigitsValue(s) ==
    IF s = <<>> THEN 0
    ELSE CHOOSE r \in {NegAppendDigit(acc, DigitVal(s[Len(s)])) :
                          acc \in {NegDigitsValue(SubSeq(s, 1, Len(s) - 1))}} :
            TRUE

\* QString::toInt(): surrounding white space is skipped, one sign is
\* allowed, the rest must be decimal digits and the value must fit an int;
\* every failure of the conversion gives 0.
toInt(str) ==
    LET s    == TrimRight(TrimLeft(str))
        neg  == s # <<>> /\ Head(s) = "-"
        sgn  == s # <<>> /\ Head(s) \in {"-", "+"}
        body == IF sgn THEN Tail(s) ELSE s
        ok   == body # <<>> /\ \A i \in 1..Len(body) : IsDigit(body[i])
        nval == IF ok THEN NegDigitsValue(body) ELSE Overflow
    IN  IF nval = Overflow THEN 0
        ELSE IF neg THEN nval
        ELSE IF nval = IntMin THEN 0
        ELSE 0 - nval

\* the decimal digits of a natural number, as a sequence of characters
RECURSIVE NumChars(_)
NumChars(n) ==
    IF n < 10 THEN <<Digits[n + 1]>>
    ELSE Append(NumChars(n \div 10), Digits[(n % 10) + 1])

\* QString::arg(int): the decimal rendering of a natural number
RECURSIVE NumStr(_)
NumStr(n) ==
    IF n < 10 THEN Digits[n + 1]
    ELSE NumStr(n \div 10) \o Digits[(n % 10) + 1]

\* QString(n, ' '): a string of n spaces
RECURSIVE Spaces(_)
Spaces(n) == IF n <= 0 THEN "" ELSE " " \o Spaces(n - 1)

isEmpty(s) == s = <<>>

----------------------------------------------------------------------------
(* Attribute names *)

UpperCase == <<"A", "B", "C", "D", "E", "F", "G", "H", "I", "J", "K", "L", "M",
               "N", "O", "P", "Q", "R", "S", "T", "U", "V", "W", "X", "Y", "Z">>
LowerCase == <<"a", "b", "c", "d", "e", "f", "g", "h", "i", "j", "k", "l", "m",
               "n", "o", "p", "q", "r", "s", "t", "u", "v", "w", "x", "y", "z">>

toLower(c) ==
    IF \E i \in 1..26 : UpperCase[i] = c
    THEN LowerCase[CHOOSE i \in 1..26 : UpperCase[i] = c]
    ELSE c

\* the default value of the --attribute option
DefaultAttribute == <<"p", "a", "s", "s", "w", "o", "r", "d">>
TotpName         == <<"t", "o", "t", "p">>

kPassword == <<"P", "a", "s", "s", "w", "o", "r", "d">>
kTitle    == <<"T", "i", "t", "l", "e">>
kURL      == <<"U", "R", "L">>
kUserName == <<"U", "s", "e", "r", "N", "a", "m", "e">>
kPINupper == <<"P", "I", "N">>
kPINlower == <<"p", "i", "n">>

----------------------------------------------------------------------------
(* The database: entries by path.  An entry's attributes are listed in    *)
(* the order in which the attribute map enumerates its keys; keys are     *)
(* unique.                                                                *)

Attr(k, v) == [key |-> k, value |-> v]

NoEntry == [attributes |-> <<>>, hasTotp |-> FALSE, null |-> TRUE]

Entry(attributes, hasTotp) ==
    [attributes |-> attributes, hasTotp |-> hasTotp, null |-> FALSE]

Database ==
    [p \in {"Root/Email", "Root/Bank", "Root/Legacy"} |->
        CASE p = "Root/Email" ->
                Entry(<<Attr(kPassword, "secret123"), Attr(kTitle, "Email"),
                        Attr(kURL, "https://mail"), Attr(kUserName, "alice")>>,
                      FALSE)
          [] p = "Root/Bank" ->
                Entry(<<Attr(kPINupper, "9999"), Attr(kPassword, "hunter2"),
                        Attr(kTitle, "Bank"), Attr(kPINlower, "0000")>>,
                      TRUE)
          [] p = "Root/Legacy" ->
                Entry(<<Attr(kPassword, "pw"), Attr(kTitle, "Legacy"),
                        Attr(TotpName, "seed")>>,
                      FALSE)]

\* the codes that Entry::totp() may return, depending on the time of the call
TotpCodes == {"123456", "654321"}

\* Group::findEntryByPath
findEntryByPath(path) ==
    IF path \in DOMAIN Database THEN Database[path] ELSE NoEntry

\* EntryAttributes::hasKey
hasKey(attributes, name) ==
    \E i \in 1..Len(attributes) : attributes[i].key = name

\* EntryAttributes::value: the stored value of a key, empty for no such key
attributesValue(attributes, name) ==
    IF hasKey(attributes, name)
    THEN attributes[CHOOSE i \in 1..Len(attributes) : attributes[i].key = name].value
    ELSE ""

\* the matching rule of the store: the name is a prefix of the key, letter
\* case ignored
Matches(key, name) ==
    /\ Len(name) <= Len(key)
    /\ \A i \in 1..Len(name) : toLower(name[i]) = toLower(key[i])

\* the keys among attributes[1..n] that match the name, in map order
RECURSIVE MatchingKeys(_, _, _)
MatchingKeys(attributes, name, n) ==
    IF n = 0 THEN <<>>
    ELSE LET rest == MatchingKeys(attributes, name, n - 1)
         IN  IF Matches(attributes[n].key, name)
             THEN Append(rest, attributes[n].key)
             ELSE rest

\* Utils::findAttributes: an exact match takes priority, otherwise every
\* matching key, in the order of the attribute map
findAttributes(attributes, name) ==
    IF hasKey(attributes, name) THEN <<name>>
    ELSE MatchingKeys(attributes, name, Len(attributes))

\* QLocale::createSeparatedList: the elements, in order, separated by ", "
RECURSIVE createSeparatedList(_)
createSeparatedList(list) ==
    IF list = <<>> THEN <<>>
    ELSE IF Len(list) = 1 THEN list[1]
    ELSE createSeparatedList(SubSeq(list, 1, Len(list) - 1))
            \o <<",", " ">> \o list[Len(list)]

----------------------------------------------------------------------------
(* State *)

VARIABLES
    parser,             \* the parsed command line (never changes)
    pc,                 \* the position in executeWithDatabase
    timeoutSeconds,     \* int timeoutSeconds
    outputTextStream,   \* its device and everything written to it
    errorTextStream,    \* everything written to the stream on STDERR
    entry,              \* Entry* entry
    selectedAttribute,  \* QString selectedAttribute
    value,              \* QString value
    found,              \* bool found
    exitCode,           \* int exitCode
    lastLine,           \* QString lastLine
    returned,           \* <<>> while running, <<code>> after the return
    clipboard,          \* the content of the system clipboard
    clipboardBefore,    \* its content when the command was started
    first,              \* <<>>, or what an earlier invocation was and did
    calls               \* the calls made to the collaborators, in order

\* what an invocation is given and never changes
inputs == <<parser, clipboardBefore, first>>

vars == <<parser, pc, timeoutSeconds, outputTextStream, errorTextStream, entry,
          selectedAttribute, value, found, exitCode, lastLine, returned,
          clipboard, clipboardBefore, first, calls>>

----------------------------------------------------------------------------
(* The command line *)

\* the timeout arguments tried: the empty string, strings that are no
\* positive int, and the numbers 1..MaxTimeout, some written unusually
TimeoutStrings ==
    {<<>>, <<"0">>, <<"-", "5">>, <<"a", "b", "c">>, <<"2", "x">>,
     <<"+", "2">>, <<" ", "3">>, <<"0", "1">>,
     <<"4", "2", "9", "4", "9", "6", "7", "2", "9", "7">>}
        \cup {NumChars(n) : n \in 1..MaxTimeout}

EntryPaths == DOMAIN Database \cup {"Root/Missing"}

\* the values given to --attribute
AttributeNames ==
    {DefaultAttribute, kPassword, <<"p", "a", "s", "s">>, <<"u">>,
     <<"x", "y", "z">>, TotpName, <<"T", "O", "T", "P">>,
     <<"P", "i", "n">>, kPINlower}

\* QCommandLineParser::positionalArguments: the database, the entry path
\* and, optionally, the timeout
PositionalArguments ==
    {<<"db.kdbx", p>> : p \in EntryPaths}
        \cup {<<"db.kdbx", p, t>> : p \in EntryPaths, t \in TimeoutStrings}

\* an option that is not set has no value
Parsers ==
    {[args |-> a, attributeSet |-> FALSE, attribute |-> <<>>,
      totpSet |-> t, quietSet |-> q] :
        a \in PositionalArguments, t \in BOOLEAN, q \in BOOLEAN}
    \cup
    {[args |-> a, attributeSet |-> TRUE, attribute |-> n,
      totpSet |-> t, quietSet |-> q] :
        a \in PositionalArguments, n \in AttributeNames,
        t \in BOOLEAN, q \in BOOLEAN}

\* QCommandLineParser::value(AttributeOption): the default when not set
parserValueAttribute(p) ==
    IF p.attributeSet THEN p.attribute ELSE DefaultAttribute

\* the timeout argument, empty when there is none
timeoutArg(p) == IF Len(p.args) = 3 THEN p.args[3] ELSE <<>>

entryPathArg(p) == p.args[2]

----------------------------------------------------------------------------
(* Streams *)

\* one item written to a text stream: a text and the arguments put into
\* its %1, %2 places
Msg(text, args) == [text |-> text, args |-> args]
Raw(text)       == [text |-> text, args |-> <<>>]
Endl            == Raw("\n")

TextStream(device) == [device |-> device, written |-> <<>>]

Write(stream, items) == [stream EXCEPT !.written = @ \o items]

\* what a stream delivers to standard output
Stdout == IF outputTextStream.device = "STDOUT"
          THEN outputTextStream.written ELSE <<>>

\* what has been delivered to standard error
Stderr == errorTextStream

CountdownLine(n) ==
    "Clearing the clipboard in " \o NumStr(n) \o " second(s)..."

EraseLine_OneShort(line) ==
    <<Raw("\r"), Raw(Spaces(Len(line) - 1)), Raw("\r")>>

\* the previous line is overwritten with spaces
EraseLine(line) == <<Raw("\r"), Raw(Spaces(Len(line))), Raw("\r")>>

----------------------------------------------------------------------------
(* Initial state: any command line, any clipboard content *)

ClipboardContents == {"", "old"}

Init ==
    /\ parser \in Parsers
    /\ pc = "validateTimeout"
    /\ timeoutSeconds = 0
    /\ outputTextStream = TextStream("none")
    /\ errorTextStream = <<>>
    /\ entry = NoEntry
    /\ selectedAttribute = <<>>
    /\ value = ""
    /\ found = FALSE
    /\ exitCode = EXIT_SUCCESS
    /\ lastLine = ""
    /\ returned = <<>>
    /\ clipboard \in ClipboardContents
    /\ clipboardBefore = clipboard
    /\ first = <<>>
    /\ calls = <<>>

Return(code) ==
    /\ pc' = "done"
    /\ returned' = <<code>>

Call(fn, arg, ret) == [fn |-> fn, arg |-> arg, ret |-> ret]

----------------------------------------------------------------------------
(* The clipboard collaborator *)

\* the exit codes Utils::clipText may report
ClipExitCodes == {EXIT_SUCCESS, EXIT_FAILURE, 2}

\* Utils::clipText(text) reporting code: a successful write replaces the
\* content of the clipboard, a failed one leaves it as it was
clipText(text, code) ==
    /\ clipboard' = IF code = EXIT_SUCCESS THEN text ELSE clipboard
    /\ calls' = Append(calls, Call("clipText", text, code))

----------------------------------------------------------------------------
(* executeWithDatabase, block by block *)

\* timeout.toInt() for the timeout arguments of the model, each of them
\* converted once
timeoutToInt == [t \in TimeoutStrings |-> toInt(t)]

timeoutRefused_ZeroAccepted(timeout) ==
    ~isEmpty(timeout) /\ timeoutToInt[timeout] < 0

\* the timeout is given and is no int greater than zero
timeoutRefused(timeout) ==
    ~isEmpty(timeout) /\ timeoutToInt[timeout] <= 0

\* the timeout argument is read and validated
ValidateTimeout ==
    /\ pc = "validateTimeout"
    /\ LET timeout == timeoutArg(parser)
       IN  IF timeoutRefused(timeout)
           THEN /\ errorTextStream' = errorTextStream \o
                      <<Msg("Invalid timeout value %1.", <<timeout>>), Endl>>
                /\ Return(EXIT_FAILURE)
                /\ UNCHANGED timeoutSeconds
           ELSE /\ timeoutSeconds' =
                      IF ~isEmpty(timeout) THEN timeoutToInt[timeout] ELSE 0
                /\ pc' = "findEntry"
                /\ UNCHANGED <<errorTextStream, returned>>
    /\ UNCHANGED <<inputs, outputTextStream, entry, selectedAttribute, value,
                   found, exitCode, lastLine, clipboard, calls>>

outputDevice_QuietIgnored(p) == "STDOUT"

entryMissing_Unchecked(e) == FALSE

\* the lookup found no entry
entryMissing(e) == e.null

\* the device of the output stream: nothing is shown in quiet mode
outputDevice(p) == IF p.quietSet THEN "DEVNULL" ELSE "STDOUT"

\* the output stream is opened and the entry is looked up
FindEntry ==
    /\ pc = "findEntry"
    /\ outputTextStream' = TextStream(outputDevice(parser))
    /\ LET entryPath == entryPathArg(parser)
           e == findEntryByPath(entryPath)
       IN  /\ calls' = Append(calls, Call("findEntryByPath", entryPath, ~e.null))
           /\ entry' = e
           /\ IF entryMissing(e)
              THEN /\ errorTextStream' = errorTextStream \o
                         <<Msg("Entry %1 not found.", <<entryPath>>), Endl>>
                   /\ Return(EXIT_FAILURE)
              ELSE /\ pc' = "checkOptions"
                   /\ UNCHANGED <<errorTextStream, returned>>
    /\ UNCHANGED <<inputs, timeoutSeconds, selectedAttribute, value, found,
                   exitCode, lastLine, clipboard>>

bothOptionsSet_Unchecked(p) == FALSE

bothOptionsSet_Negated(p) == p.attributeSet /\ ~p.totpSet

\* --attribute and --totp are both given
bothOptionsSet(p) == p.attributeSet /\ p.totpSet

\* --attribute and --totp exclude each other
CheckOptions ==
    /\ pc = "checkOptions"
    /\ IF bothOptionsSet(parser)
       THEN /\ errorTextStream' = errorTextStream \o
                  <<Msg("ERROR: Please specify one of --attribute or --totp, not both.",
                        <<>>), Endl>>
            /\ Return(EXIT_FAILURE)
       ELSE /\ pc' = "resolve"
            /\ UNCHANGED <<errorTextStream, returned>>
    /\ UNCHANGED <<inputs, timeoutSeconds, outputTextStream, entry,
                   selectedAttribute, value, found, exitCode, lastLine,
                   clipboard, calls>>

totpSelected_AnyCase ==
    LET name == parserValueAttribute(parser)
    IN  \/ parser.totpSet
        \/ [i \in 1..Len(name) |-> toLower(name[i])] = TotpName

\* the branch condition of the resolution
totpSelected == parser.totpSet \/ parserValueAttribute(parser) = TotpName

\* the TOTP branch
ResolveTotp ==
    /\ pc = "resolve"
    /\ totpSelected
    /\ selectedAttribute' = parserValueAttribute(parser)
    /\ IF ~entry.hasTotp
       THEN /\ calls' = Append(calls, Call("hasTotp", <<>>, FALSE))
            /\ errorTextStream' = errorTextStream \o
                  <<Msg("Entry with path %1 has no TOTP set up.",
                        <<entryPathArg(parser)>>), Endl>>
            /\ Return(EXIT_FAILURE)
            /\ UNCHANGED <<found, value>>
       ELSE \E code \in TotpCodes :
            /\ calls' = calls \o <<Call("hasTotp", <<>>, TRUE),
                                   Call("totp", <<>>, code)>>
            /\ found' = TRUE
            /\ value' = code
            /\ pc' = "checkFound"
            /\ UNCHANGED <<errorTextStream, returned>>
    /\ UNCHANGED <<inputs, timeoutSeconds, outputTextStream, entry, exitCode,
                   lastLine, clipboard>>

matchedKey_QueryKept(name, attrs) == name

\* the key that the query resolved to: the single match
matchedKey(name, attrs) == attrs[1]

ambiguousMessage_Reversed(name, attrs) ==
    LET n == Len(attrs)
    IN  Msg("ERROR: attribute %1 is ambiguous, it matches %2.",
            <<name, createSeparatedList([i \in 1..n |-> attrs[n + 1 - i]])>>)

\* the message for a query that matches several keys
ambiguousMessage(name, attrs) ==
    Msg("ERROR: attribute %1 is ambiguous, it matches %2.",
        <<name, createSeparatedList(attrs)>>)

\* the attribute branch
ResolveAttribute ==
    /\ pc = "resolve"
    /\ ~totpSelected
    /\ LET name  == parserValueAttribute(parser)
           attrs == findAttributes(entry.attributes, name)
       IN  /\ calls' = Append(calls, Call("findAttributes", name, attrs))
           /\ IF Len(attrs) > 1
              THEN /\ errorTextStream' = errorTextStream \o
                         <<ambiguousMessage(name, attrs), Endl>>
                   /\ Return(EXIT_FAILURE)
                   /\ selectedAttribute' = name
                   /\ UNCHANGED <<found, value>>
              ELSE IF Len(attrs) = 1
              THEN /\ found' = TRUE
                   /\ selectedAttribute' = matchedKey(name, attrs)
                   /\ value' = attributesValue(entry.attributes,
                                               matchedKey(name, attrs))
                   /\ pc' = "checkFound"
                   /\ UNCHANGED <<errorTextStream, returned>>
              ELSE /\ selectedAttribute' = name
                   /\ pc' = "checkFound"
                   /\ UNCHANGED <<errorTextStream, returned, found, value>>
    /\ UNCHANGED <<inputs, timeoutSeconds, outputTextStream, entry, exitCode,
                   lastLine, clipboard>>

CheckFound_ToStderr ==
    /\ pc = "checkFound"
    /\ IF ~found
       THEN /\ errorTextStream' = errorTextStream \o
                  <<Msg("Attribute \"%1\" not found.", <<selectedAttribute>>),
                    Endl>>
            /\ Return(EXIT_FAILURE)
       ELSE /\ pc' = "clipText"
            /\ UNCHANGED <<errorTextStream, returned>>
    /\ UNCHANGED <<inputs, timeoutSeconds, outputTextStream, entry,
                   selectedAttribute, value, found, exitCode, lastLine,
                   clipboard, calls>>

CheckFound_NoReturn ==
    /\ pc = "checkFound"
    /\ outputTextStream' =
          IF ~found
          THEN Write(outputTextStream,
                  <<Msg("Attribute \"%1\" not found.", <<selectedAttribute>>),
                    Endl>>)
          ELSE outputTextStream
    /\ pc' = "clipText"
    /\ UNCHANGED <<inputs, timeoutSeconds, errorTextStream, entry,
                   selectedAttribute, value, found, exitCode, lastLine,
                   clipboard, calls, returned>>

\* nothing was resolved
CheckFound ==
    /\ pc = "checkFound"
    /\ IF ~found
       THEN /\ outputTextStream' = Write(outputTextStream,
                  <<Msg("Attribute \"%1\" not found.", <<selectedAttribute>>),
                    Endl>>)
            /\ Return(EXIT_FAILURE)
       ELSE /\ pc' = "clipText"
            /\ UNCHANGED <<outputTextStream, returned>>
    /\ UNCHANGED <<inputs, timeoutSeconds, errorTextStream, entry,
                   selectedAttribute, value, found, exitCode, lastLine,
                   clipboard, calls>>

writeFailed_OnlyExitFailure(code) == code = EXIT_FAILURE

\* the clipboard write did not report success
writeFailed(code) == code # EXIT_SUCCESS

\* the value is written to the clipboard
CopyToClipboard ==
    /\ pc = "clipText"
    /\ \E code \in ClipExitCodes :
          /\ clipText(value, code)
          /\ exitCode' = code
          /\ IF writeFailed(code)
             THEN Return(code)
             ELSE pc' = "confirm" /\ UNCHANGED returned
    /\ UNCHANGED <<inputs, timeoutSeconds, outputTextStream, errorTextStream,
                   entry, selectedAttribute, value, found, lastLine>>

noCountdown_Inverted == timeoutSeconds # 0

noCountdown_SkippedUnderQuiet == timeoutSeconds = 0 \/ parser.quietSet

\* there is no timeout to count down
noCountdown == timeoutSeconds = 0

\* the confirmation, and the return when there is no timeout
Confirm ==
    /\ pc = "confirm"
    /\ outputTextStream' = Write(outputTextStream,
          <<Msg("Entry's \"%1\" attribute copied to the clipboard!",
                <<selectedAttribute>>), Endl>>)
    /\ IF noCountdown
       THEN Return(exitCode) /\ UNCHANGED lastLine
       ELSE pc' = "countdown" /\ lastLine' = "" /\ UNCHANGED returned
    /\ UNCHANGED <<inputs, timeoutSeconds, errorTextStream, entry,
                   selectedAttribute, value, found, exitCode, clipboard, calls>>

loopContinues_OffByOne == timeoutSeconds > 1

\* the condition of the countdown loop
loopContinues == timeoutSeconds > 0

decremented_Forgotten(n) == n

\* --timeoutSeconds
decremented(n) == n - 1

\* one round of the countdown loop
Tick ==
    /\ pc = "countdown"
    /\ loopContinues
    /\ LET line == CountdownLine(timeoutSeconds)
       IN  /\ outputTextStream' = Write(outputTextStream,
                  EraseLine(lastLine) \o <<Raw(line)>>)
           /\ lastLine' = line
    /\ calls' = Append(calls, Call("sleep_for", 1000, 0))
    /\ timeoutSeconds' = decremented(timeoutSeconds)
    /\ UNCHANGED <<inputs, pc, errorTextStream, entry, selectedAttribute,
                   value, found, exitCode, returned, clipboard>>

\* after the loop the clipboard is cleared
Clear ==
    /\ pc = "countdown"
    /\ ~loopContinues
    /\ \E code \in ClipExitCodes : clipText("", code)
    /\ outputTextStream' = Write(outputTextStream,
          EraseLine(lastLine) \o <<Raw("Clipboard cleared!"), Endl>>)
    /\ Return(EXIT_SUCCESS)
    /\ UNCHANGED <<inputs, timeoutSeconds, errorTextStream, entry,
                   selectedAttribute, value, found, exitCode, lastLine>>

Next ==
    \/ ValidateTimeout
    \/ FindEntry
    \/ CheckOptions
    \/ ResolveTotp
    \/ ResolveAttribute
    \/ CheckFound
    \/ CopyToClipboard
    \/ Confirm
    \/ Tick
    \/ Clear

Spec == Init /\ [][Next]_vars

----------------------------------------------------------------------------
(* Observations used by the properties *)

Done == pc = "done"

ExitStatus == returned[1]

\* the command line of the invocation
TimeoutGiven == timeoutArg(parser)
Query        == parserValueAttribute(parser)
BothSet      == parser.attributeSet /\ parser.totpSet

IsFn(fn, c) == c.fn = fn

IsClipText(c) == IsFn("clipText", c)
IsSleep(c) == IsFn("sleep_for", c)
IsFindAttributes(c) == IsFn("findAttributes", c)
IsTotp(c) == IsFn("totp", c)
IsFindEntry(c) == IsFn("findEntryByPath", c)

\* the clipboard writes and the sleeps made so far
ClipWrites == SelectSeq(calls, IsClipText)
Sleeps     == Len(SelectSeq(calls, IsSleep))

FirstWriteMade      == ClipWrites # <<>>
FirstWriteSucceeded == FirstWriteMade /\ ClipWrites[1].ret = EXIT_SUCCESS
FirstWriteFailed    == FirstWriteMade /\ ClipWrites[1].ret # EXIT_SUCCESS

\* the entry was resolved or the lookup was reached
Called(fn) == \E i \in 1..Len(calls) : calls[i].fn = fn

Has(written, text) == \E i \in 1..Len(written) : written[i].text = text

TextInvalidTimeout == "Invalid timeout value %1."
TextEntryNotFound  == "Entry %1 not found."
TextConflicting    ==
    "ERROR: Please specify one of --attribute or --totp, not both."
TextNoTotp         == "Entry with path %1 has no TOTP set up."
TextAmbiguous      == "ERROR: attribute %1 is ambiguous, it matches %2."
TextNotFound       == "Attribute \"%1\" not found."
TextCopied         == "Entry's \"%1\" attribute copied to the clipboard!"
TextCleared        == "Clipboard cleared!"

\* the failures, told by the message the invocation wrote
InvalidTimeout     == Has(errorTextStream, TextInvalidTimeout)
EntryNotFound      == Has(errorTextStream, TextEntryNotFound)
ConflictingOptions == Has(errorTextStream, TextConflicting)
NoTotpConfigured   == Has(errorTextStream, TextNoTotp)
AttributeAmbiguous == Has(errorTextStream, TextAmbiguous)
AttributeNotFound  == Has(outputTextStream.written, TextNotFound)

IsCountdownItem(item) ==
    \E n \in 0..(MaxTimeout + 1) : item.text = CountdownLine(n)

IsStatusItem(item) == IsCountdownItem(item) \/ item.text = TextCleared

\* the countdown lines and the clearing message written so far, in order
StatusLines(written) == SelectSeq(written, IsStatusItem)

CountdownLines(written) == SelectSeq(written, IsCountdownItem)

\* the items with a given text
WithText(written, text) ==
    {i \in 1..Len(written) : written[i].text = text}

----------------------------------------------------------------------------
(* C1 *)

\* C1 (as claimed): every invocation with a valid timeout N > 0 whose first
\* clipboard write succeeds ends with an empty clipboard, having written
\* exactly the N countdown lines for N, N-1, ..., 1, in that order, before
\* the final "Clipboard cleared!".
C1_ClearedAfterCountdown ==
    (Done /\ toInt(TimeoutGiven) > 0 /\ FirstWriteSucceeded) =>
        LET N == toInt(TimeoutGiven)
        IN  /\ clipboard = ""
            /\ StatusLines(outputTextStream.written) =
                  [i \in 1..(N + 1) |->
                      IF i <= N THEN Raw(CountdownLine(N + 1 - i))
                                ELSE Raw(TextCleared)]

\* the part of C1 that the code does satisfy: the lines of the countdown
C1_CountdownLines ==
    (Done /\ toInt(TimeoutGiven) > 0 /\ FirstWriteSucceeded) =>
        LET N == toInt(TimeoutGiven)
        IN  StatusLines(outputTextStream.written) =
                  [i \in 1..(N + 1) |->
                      IF i <= N THEN Raw(CountdownLine(N + 1 - i))
                                ELSE Raw(TextCleared)]

----------------------------------------------------------------------------
(* C2 *)

\* C2: when the first clipboard write reports a code c other than success,
\* the command has returned exactly c and has done nothing else: that
\* write is its last call, nothing was written to either stream, there was
\* no sleep and no second clipboard write.
C2_WriteFailurePropagates ==
    FirstWriteFailed =>
        /\ Done
        /\ returned = <<ClipWrites[1].ret>>
        /\ Len(ClipWrites) = 1
        /\ IsClipText(calls[Len(calls)])
        /\ Sleeps = 0
        /\ outputTextStream.written = <<>>
        /\ errorTextStream = <<>>

\* a write that failed with a code other than EXIT_FAILURE
C2_Witness ==
    /\ Done
    /\ FirstWriteFailed
    /\ ClipWrites[1].ret = 2
    /\ toInt(TimeoutGiven) > 0

----------------------------------------------------------------------------
(* C3 *)

ValidationOrResolutionFailure ==
    \/ InvalidTimeout
    \/ EntryNotFound
    \/ ConflictingOptions
    \/ NoTotpConfigured
    \/ AttributeAmbiguous
    \/ AttributeNotFound

\* C3: an invocation that reports InvalidTimeout, EntryNotFound,
\* ConflictingOptions, NoTotpConfigured, AttributeAmbiguous or
\* AttributeNotFound never writes the clipboard, which keeps the content it
\* had before, and returns a status other than zero.
C3_FailuresLeaveClipboard ==
    ValidationOrResolutionFailure =>
        /\ ClipWrites = <<>>
        /\ clipboard = clipboardBefore
        /\ Done => ExitStatus # 0

\* an attribute that was not found, with something on the clipboard
C3_Witness ==
    /\ Done
    /\ AttributeNotFound
    /\ clipboard = "old"
    /\ ExitStatus = EXIT_FAILURE

----------------------------------------------------------------------------
(* C4 *)

ResolutionOrWriteCalled ==
    \/ Called("hasTotp")
    \/ Called("totp")
    \/ Called("findAttributes")
    \/ Called("clipText")

\* C4 (as claimed): with both --attribute and --totp set the invocation
\* yields ConflictingOptions whatever the entry is, the entry path existing
\* or not, and before any entry lookup.
C4_ConflictBeforeLookup ==
    (Done /\ BothSet) =>
        /\ ConflictingOptions
        /\ ~Called("findEntryByPath")

\* C4 (amended): with both --attribute and --totp set, no resolution and no
\* clipboard write is ever made, and the invocation ends with
\* InvalidTimeout when the timeout is invalid, else with EntryNotFound when
\* the entry path does not exist, else, after the entry lookup, with
\* ConflictingOptions whatever the attributes and the TOTP of the entry are;
\* the exit status is not zero.
C4_ConflictAfterLookup ==
    BothSet =>
        /\ ~ResolutionOrWriteCalled
        /\ pc \in {"validateTimeout", "findEntry", "checkOptions", "done"}
        /\ Done =>
              /\ ExitStatus # 0
              /\ outputTextStream.written = <<>>
              /\ IF ~isEmpty(TimeoutGiven) /\ toInt(TimeoutGiven) <= 0
                 THEN /\ WithText(errorTextStream, TextInvalidTimeout) = {1}
                      /\ Len(errorTextStream) = 2
                      /\ ~Called("findEntryByPath")
                 ELSE IF entryPathArg(parser) \notin DOMAIN Database
                 THEN /\ WithText(errorTextStream, TextEntryNotFound) = {1}
                      /\ Len(errorTextStream) = 2
                 ELSE /\ WithText(errorTextStream, TextConflicting) = {1}
                      /\ Len(errorTextStream) = 2
                      /\ Called("findEntryByPath")

\* both options set on an entry that has a TOTP and the attribute asked for
C4_Witness ==
    /\ Done
    /\ BothSet
    /\ ConflictingOptions
    /\ entry.hasTotp
    /\ hasKey(entry.attributes, parser.attribute)
    /\ Called("findEntryByPath")

----------------------------------------------------------------------------
(* C5 *)

\* the value an entry of the database stores under a key
StoredValue(path, key) ==
    LET as == Database[path].attributes
    IN  as[CHOOSE i \in 1..Len(as) : as[i].key = key].value

\* C5: on the attribute path, when findAttributes returned exactly one key
\* k for the query, the value written to the clipboard is the value the
\* entry stores under k and the confirmation message names k.
C5_SingleMatch ==
    \A i \in 1..Len(calls) :
        (IsFindAttributes(calls[i]) /\ Len(calls[i].ret) = 1) =>
            LET k == calls[i].ret[1]
            IN  /\ pc \notin {"resolve", "checkFound", "clipText"}
                      => FirstWriteMade
                /\ FirstWriteMade =>
                      ClipWrites[1].arg = StoredValue(entryPathArg(parser), k)
                /\ (FirstWriteSucceeded /\ pc # "confirm") =>
                      \E j \in 1..Len(outputTextStream.written) :
                          outputTextStream.written[j] = Msg(TextCopied, <<k>>)
                /\ \A j \in WithText(outputTextStream.written, TextCopied) :
                      outputTextStream.written[j].args = <<k>>

\* the query "pass" matched the key "Password", which the message names
C5_Witness ==
    /\ Done
    /\ Query = <<"p", "a", "s", "s">>
    /\ clipboard = "secret123"
    /\ Stdout[1] = Msg(TextCopied, <<kPassword>>)

----------------------------------------------------------------------------
(* C6 *)

\* C6: on the attribute path, when the matcher returned no key the
\* invocation ends with AttributeNotFound naming the query; when it
\* returned more than one key it ends with AttributeAmbiguous naming the
\* query and the keys in the order the matcher returned them; the exit
\* status is not zero in both cases.
C6_NoneOrSeveralMatches ==
    \A i \in 1..Len(calls) :
        IsFindAttributes(calls[i]) =>
            LET keys == calls[i].ret
            IN  /\ calls[i].arg = Query
                /\ (Len(keys) = 0 /\ pc # "checkFound") =>
                      /\ Done
                      /\ ExitStatus # 0
                      /\ outputTextStream.written =
                            <<Msg(TextNotFound, <<Query>>), Endl>>
                      /\ errorTextStream = <<>>
                /\ Len(keys) > 1 =>
                      /\ Done
                      /\ ExitStatus # 0
                      /\ errorTextStream =
                            <<Msg(TextAmbiguous,
                                  <<Query, createSeparatedList(keys)>>), Endl>>
                      /\ outputTextStream.written = <<>>
                /\ Len(keys) # 1 => ~FirstWriteMade

\* the query "Pin" matched the keys "PIN" and "pin", named in that order
C6_Witness ==
    /\ Done
    /\ AttributeAmbiguous
    /\ Query = <<"P", "i", "n">>
    /\ errorTextStream[1].args[2] =
          <<"P", "I", "N", ",", " ", "p", "i", "n">>

----------------------------------------------------------------------------
(* C7 *)

\* TOTP is asked for by the flag or by the attribute name "totp"
TotpRequested == parser.totpSet \/ Query = TotpName

\* C7 (as claimed): when TOTP is requested, by --totp or by the attribute
\* name "totp", and the entry has a TOTP, the value written to the
\* clipboard is the code Entry::totp() returned and the confirmation
\* message names the key "totp".
C7_TotpValueAndKey ==
    \A i \in 1..Len(calls) :
        (IsTotp(calls[i]) /\ TotpRequested) =>
            /\ FirstWriteMade => ClipWrites[1].arg = calls[i].ret
            /\ \A j \in WithText(outputTextStream.written, TextCopied) :
                  outputTextStream.written[j].args = <<TotpName>>

\* the part of C7 that the code does satisfy: the value written is the code
C7_TotpValue ==
    \A i \in 1..Len(calls) :
        (IsTotp(calls[i]) /\ TotpRequested) =>
            /\ pc \notin {"resolve", "checkFound", "clipText"}
                  => FirstWriteMade
            /\ FirstWriteMade => ClipWrites[1].arg = calls[i].ret

----------------------------------------------------------------------------
(* C8 *)

\* C8: an empty or absent timeout gives timeoutSeconds = 0, no countdown
\* and at most one clipboard write; a timeout that is not empty and does
\* not convert to an int greater than zero ("0", "-5", "abc", ...) ends the
\* invocation at once with InvalidTimeout naming it and a status other than
\* zero; any other timeout becomes the duration of the countdown, so that
\* timeoutSeconds > 0 when the countdown is entered.
C8_TimeoutValidation ==
    /\ isEmpty(TimeoutGiven) =>
          /\ timeoutSeconds = 0
          /\ ~InvalidTimeout
          /\ pc # "countdown"
          /\ Sleeps = 0
          /\ Len(ClipWrites) <= 1
          /\ FirstWriteMade => pc \in {"confirm", "done"}
    /\ (TimeoutGiven \in {<<"0">>, <<"-", "5">>, <<"a", "b", "c">>}
            /\ pc # "validateTimeout") => (Done /\ InvalidTimeout)
    /\ (~isEmpty(TimeoutGiven) /\ toInt(TimeoutGiven) <= 0
            /\ pc # "validateTimeout") =>
          /\ Done
          /\ ExitStatus # 0
          /\ errorTextStream =
                <<Msg(TextInvalidTimeout, <<TimeoutGiven>>), Endl>>
          /\ calls = <<>>
    /\ toInt(TimeoutGiven) > 0 =>
          /\ ~InvalidTimeout
          /\ pc \in {"findEntry", "checkOptions", "resolve", "checkFound",
                     "clipText", "confirm"}
                => timeoutSeconds = toInt(TimeoutGiven)
          /\ pc = "countdown" =>
                timeoutSeconds + Sleeps = toInt(TimeoutGiven)
    /\ (pc = "countdown" /\ Sleeps = 0) => timeoutSeconds > 0

\* the timeout "0" was refused
C8_Witness ==
    /\ Done
    /\ TimeoutGiven = <<"0">>
    /\ InvalidTimeout
    /\ ExitStatus = EXIT_FAILURE

----------------------------------------------------------------------------
(* C9 *)

\* C9: with no timeout, once resolution and the clipboard write have
\* succeeded the command has made exactly one clipboard write and no
\* sleep, has written no countdown line and no "Clipboard cleared!", and
\* returns 0 with the resolved secret still on the clipboard.
C9_NoTimeoutKeepsSecret ==
    (isEmpty(TimeoutGiven) /\ FirstWriteSucceeded) =>
        /\ Len(ClipWrites) = 1
        /\ Sleeps = 0
        /\ StatusLines(outputTextStream.written) = <<>>
        /\ clipboard = ClipWrites[1].arg
        /\ clipboard = value
        /\ Done => returned = <<EXIT_SUCCESS>>
        /\ pc \in {"confirm", "done"}

\* the password of Root/Email copied without a timeout
C9_Witness ==
    /\ Done
    /\ Len(parser.args) = 2
    /\ returned = <<EXIT_SUCCESS>>
    /\ clipboardBefore = "old"
    /\ clipboard = "secret123"

----------------------------------------------------------------------------
(* C10 *)

CountdownCompleted == Done /\ Len(ClipWrites) = 2

\* C10 (as claimed): after a completed countdown "Clipboard cleared!"
\* reaches standard output whether or not quiet is set.
C10_ClearedShownUnderQuiet ==
    CountdownCompleted => Has(Stdout, TextCleared)

\* C10 (amended): quiet mode sends the whole output stream to the null
\* device.  After a completed countdown "Clipboard cleared!" is the last
\* message written to the output stream in both modes, and it reaches
\* standard output exactly when quiet is not set; under quiet nothing
\* reaches standard output, neither the confirmation nor a countdown line
\* nor the clearing message.
C10_QuietSuppressesAll ==
    /\ parser.quietSet => Stdout = <<>>
    /\ CountdownCompleted =>
          LET w == outputTextStream.written
          IN  /\ Len(w) >= 2
              /\ w[Len(w) - 1] = Raw(TextCleared)
              /\ w[Len(w)] = Endl
              /\ WithText(w, TextCleared) = {Len(w) - 1}
              /\ Has(Stdout, TextCleared) <=> ~parser.quietSet
              /\ Has(Stdout, TextCopied) <=> ~parser.quietSet

\* a completed countdown under quiet: written to the stream, not shown
C10_Witness ==
    /\ CountdownCompleted
    /\ parser.quietSet
    /\ Has(outputTextStream.written, TextCleared)
    /\ Stdout = <<>>

----------------------------------------------------------------------------
(* C11 *)

\* the failures that are reported on the error stream
StderrFailureTexts ==
    {TextInvalidTimeout, TextEntryNotFound, TextConflicting, TextNoTotp,
     TextAmbiguous}

\* C11 (as claimed): an invocation that ends in AttributeNotFound delivers
\* 'Attribute "Q" not found.' to standard output and writes nothing to the
\* error stream; InvalidTimeout, EntryNotFound, ConflictingOptions,
\* NoTotpConfigured and AttributeAmbiguous deliver their message to the
\* error stream; all of them return a status other than zero.
C11_NotFoundOnStdout ==
    /\ (Done /\ AttributeNotFound) =>
          /\ Has(Stdout, TextNotFound)
          /\ Stderr = <<>>
          /\ ExitStatus # 0
    /\ \A t \in StderrFailureTexts :
          (Done /\ Has(errorTextStream, t)) =>
              (Has(Stderr, t) /\ ExitStatus # 0)

\* C11 (amended): an invocation that ends in AttributeNotFound writes
\* 'Attribute "Q" not found.' to the output stream and nothing to the error
\* stream, so the message reaches standard output when quiet is not set
\* and is discarded when quiet is set; InvalidTimeout, EntryNotFound,
\* ConflictingOptions, NoTotpConfigured and AttributeAmbiguous write their
\* message, and nothing else, to the error stream and nothing to the output
\* stream, quiet or not; all of them return a status other than zero.
C11_StreamAsymmetry ==
    /\ ~Has(Stderr, TextNotFound)
    /\ (Done /\ \E i \in 1..Len(calls) :
                    IsFindAttributes(calls[i]) /\ calls[i].ret = <<>>)
          => AttributeNotFound
    /\ (Done /\ AttributeNotFound) =>
          /\ outputTextStream.written =
                <<Msg(TextNotFound, <<Query>>), Endl>>
          /\ Has(Stdout, TextNotFound) <=> ~parser.quietSet
          /\ parser.quietSet => Stdout = <<>>
          /\ Stderr = <<>>
          /\ ExitStatus # 0
    /\ \A t \in StderrFailureTexts :
          (Done /\ Has(errorTextStream, t)) =>
              /\ WithText(Stderr, t) = {1}
              /\ Len(Stderr) = 2
              /\ Stderr[2] = Endl
              /\ outputTextStream.written = <<>>
              /\ ExitStatus # 0

\* an attribute that was not found under quiet: no message anywhere
C11_Witness ==
    /\ Done
    /\ AttributeNotFound
    /\ parser.quietSet
    /\ Query = <<"x", "y", "z">>
    /\ Stdout = <<>>
    /\ Stderr = <<>>
    /\ ExitStatus = EXIT_FAILURE

----------------------------------------------------------------------------
(* C12 *)

\* C12 (as claimed): the command returns 0 only if every clipboard write it
\* made, the write of the secret and the clearing write, reported success.
C12_NoSwallowedWriteError ==
    (Done /\ ExitStatus = EXIT_SUCCESS) =>
        \A i \in 1..Len(ClipWrites) : ClipWrites[i].ret = EXIT_SUCCESS

\* the part of C12 that the code does satisfy: the write of the secret
C12_FirstWriteChecked ==
    (Done /\ ExitStatus = EXIT_SUCCESS) => FirstWriteSucceeded

----------------------------------------------------------------------------
(* C13 *)

\* the positions of the function in the order of the state machine:
\* Idle/Validating, Resolving, Written, Counting, Done
Rank(p) ==
    CASE p = "validateTimeout" -> 0
      [] p = "findEntry"       -> 1
      [] p = "checkOptions"    -> 2
      [] p = "resolve"         -> 3
      [] p = "checkFound"      -> 4
      [] p = "clipText"        -> 5
      [] p = "confirm"         -> 6
      [] p = "countdown"       -> 7
      [] p = "done"            -> 8

Failed == Done /\ ExitStatus # 0

\* what holds in every state of the state machine
C13_StateInvariant ==
    /\ Len(ClipWrites) <= 2
    /\ Len(ClipWrites) = 2 =>
          /\ Done
          /\ ClipWrites[2].arg = ""
          /\ toInt(TimeoutGiven) > 0
          /\ Sleeps = toInt(TimeoutGiven)
    /\ (FirstWriteSucceeded /\ Len(ClipWrites) = 1) =>
          /\ clipboard = ClipWrites[1].arg
          /\ clipboard = value
    /\ Sleeps > 0 => (FirstWriteSucceeded /\ pc \in {"countdown", "done"})
    /\ Failed =>
          /\ Len(ClipWrites) <= 1
          /\ Sleeps = 0
          /\ StatusLines(outputTextStream.written) = <<>>
          /\ ~Has(outputTextStream.written, TextCopied)

\* what holds of every step of the state machine
C13_Step ==
    /\ pc # "done"
    /\ Rank(pc') >= Rank(pc)
    /\ Rank(pc') \in {Rank(pc), Rank(pc) + 1, Rank("done")}
    /\ pc' = pc =>
          /\ pc = "countdown"
          /\ timeoutSeconds > 0
          /\ timeoutSeconds' = timeoutSeconds - 1
          /\ Len(ClipWrites') = 1
    /\ (pc' = "done" /\ returned'[1] # 0) =>
          pc \in {"validateTimeout", "findEntry", "checkOptions", "resolve",
                  "checkFound", "clipText"}
    /\ (pc = "countdown" /\ pc' = "done") =>
          /\ timeoutSeconds = 0
          /\ Len(ClipWrites') = 2

\* C13: the invocation moves through validation, resolution, the write,
\* the countdown and the clearing in that order and never backwards; the
\* clearing write is made only after all N sleeps; from the successful
\* write until the clearing write the clipboard holds the resolved secret;
\* a failure is reached directly from a validation, resolution or write
\* step, and after it (as after any return) no further step is taken.
C13_StateMachine == [](C13_StateInvariant) /\ [][C13_Step]_vars

\* in the middle of a countdown of three seconds: the secret is held
C13_Witness ==
    /\ pc = "countdown"
    /\ toInt(TimeoutGiven) = 3
    /\ Sleeps = 2
    /\ timeoutSeconds = 1
    /\ clipboard = "hunter2"

----------------------------------------------------------------------------
(* C14 *)

\* the failure texts written so far, on either stream
FailureTexts ==
    {t \in StderrFailureTexts : Has(errorTextStream, t)}
        \cup {t \in {TextNotFound} : Has(outputTextStream.written, TextNotFound)}

\* the number of failure messages written so far
FailureCount ==
    Cardinality({i \in 1..Len(errorTextStream) :
                    errorTextStream[i].text \in StderrFailureTexts})
      + Cardinality(WithText(outputTextStream.written, TextNotFound))

\* the failure conditions that hold of the command line and the database
CondInvalidTimeout == ~isEmpty(TimeoutGiven) /\ toInt(TimeoutGiven) <= 0
CondEntryNotFound  == entryPathArg(parser) \notin DOMAIN Database
CondConflicting    == BothSet
CondResolution ==
    /\ ~CondEntryNotFound
    /\ LET e == Database[entryPathArg(parser)]
       IN  IF TotpRequested THEN ~e.hasTotp
           ELSE Len(findAttributes(e.attributes, Query)) # 1

\* the failure of the resolution, when resolution is what fails
ResolutionFailureText ==
    LET e == Database[entryPathArg(parser)]
    IN  IF TotpRequested THEN TextNoTotp
        ELSE IF Len(findAttributes(e.attributes, Query)) > 1
        THEN TextAmbiguous
        ELSE TextNotFound

\* the first failure in the order InvalidTimeout, EntryNotFound,
\* ConflictingOptions, resolution errors; "" when no condition holds
FirstFailure ==
    IF CondInvalidTimeout THEN TextInvalidTimeout
    ELSE IF CondEntryNotFound THEN TextEntryNotFound
    ELSE IF CondConflicting THEN TextConflicting
    ELSE IF CondResolution THEN ResolutionFailureText
    ELSE ""

\* C14: of the failure conditions that hold at once, the one reported is
\* the first in the order InvalidTimeout, EntryNotFound, ConflictingOptions,
\* resolution error (NoTotpConfigured / AttributeAmbiguous /
\* AttributeNotFound); at most one failure message is ever written, and
\* the failure reported at the end is a function of the command line and
\* the database alone.
C14_FirstFailureWins ==
    /\ FailureCount <= 1
    /\ FailureTexts # {} => (Done /\ ExitStatus = EXIT_FAILURE)
    /\ Done =>
          FailureTexts = IF FirstFailure = "" THEN {} ELSE {FirstFailure}

\* a bad timeout, a missing entry and both options at once
C14_Witness ==
    /\ Done
    /\ CondInvalidTimeout
    /\ CondEntryNotFound
    /\ CondConflicting
    /\ FailureTexts = {TextInvalidTimeout}

----------------------------------------------------------------------------
(* C15 *)

ResolutionReached == Rank(pc) > Rank("resolve")

\* C15: resolution takes the TOTP path exactly when --totp is set or the
\* attribute name is "totp", letter for letter; on that path the attribute
\* map is never consulted, so that an entry without TOTP fails with
\* NoTotpConfigured even when it has an attribute with the key "totp";
\* any other name, "TOTP" included, goes through the attribute matcher.
C15_TotpPathSelection ==
    /\ Called("hasTotp") => ~Called("findAttributes")
    /\ Called("totp") => Called("hasTotp")
    /\ (ResolutionReached /\ ~BothSet /\ ~EntryNotFound /\ ~InvalidTimeout) =>
          /\ Called("hasTotp") <=> (parser.totpSet \/ Query = TotpName)
          /\ Called("findAttributes") <=>
                ~(parser.totpSet \/ Query = TotpName)
          /\ Called("findAttributes") =>
                calls[2] = Call("findAttributes", Query,
                                findAttributes(entry.attributes, Query))
          /\ (Called("hasTotp") /\ ~entry.hasTotp) =>
                /\ Done
                /\ NoTotpConfigured
                /\ ExitStatus = EXIT_FAILURE
                /\ ~FirstWriteMade
          /\ (Query = <<"T", "O", "T", "P">> /\ ~parser.totpSet) =>
                Called("findAttributes")

\* "-a totp" on an entry without TOTP that has an attribute "totp"
C15_Witness ==
    /\ Done
    /\ Query = TotpName
    /\ ~parser.totpSet
    /\ hasKey(entry.attributes, TotpName)
    /\ ~entry.hasTotp
    /\ NoTotpConfigured
    /\ ~Called("findAttributes")

----------------------------------------------------------------------------
(* C16 *)

\* C16: in an invocation with both --attribute and --totp set, resolution
\* is never reached: neither the TOTP check nor the attribute matcher is
\* ever called.
C16_NoResolutionWithBoth ==
    BothSet =>
        /\ Rank(pc) <= Rank("checkOptions") \/ Done
        /\ ~Called("hasTotp")
        /\ ~Called("totp")
        /\ ~Called("findAttributes")
        /\ selectedAttribute = <<>>
        /\ ~found

\* both options on an existing entry with a valid timeout: the check of
\* the options is what ended the invocation
C16_Witness ==
    /\ Done
    /\ BothSet
    /\ Query = TotpName
    /\ toInt(TimeoutGiven) = 2
    /\ ~entry.null
    /\ ConflictingOptions
    /\ calls = <<Call("findEntryByPath", entryPathArg(parser), TRUE)>>

----------------------------------------------------------------------------
(* C17 *)

IsTotpOrClipText(c) == IsTotp(c) \/ IsClipText(c)

\* the results that the collaborators gave which are not fixed by the
\* database: the TOTP code and the exit codes of the clipboard writes
Results(cs) == SelectSeq(cs, IsTotpOrClipText)

\* the command is invoked a second time on the same command line, but for
\* the quiet flag, the same database and the same clipboard
Rerun ==
    /\ pc = "done"
    /\ first = <<>>
    /\ first' = <<[parser   |-> parser,
                   returned |-> returned,
                   writes   |-> ClipWrites,
                   sleeps   |-> Sleeps,
                   stderr   |-> Stderr,
                   results  |-> Results(calls)]>>
    /\ parser' = [parser EXCEPT !.quietSet = ~@]
    /\ pc' = "validateTimeout"
    /\ timeoutSeconds' = 0
    /\ outputTextStream' = TextStream("none")
    /\ errorTextStream' = <<>>
    /\ entry' = NoEntry
    /\ selectedAttribute' = <<>>
    /\ value' = ""
    /\ found' = FALSE
    /\ exitCode' = EXIT_SUCCESS
    /\ lastLine' = ""
    /\ returned' = <<>>
    /\ clipboard' = clipboardBefore
    /\ calls' = <<>>
    /\ UNCHANGED clipboardBefore

NextTwice ==
    \/ Next
    \/ Rerun

\* two invocations, one after the other
SpecTwice == Init /\ [][NextTwice]_vars

\* the collaborators gave the same results to both invocations, as far as
\* both asked
SameResults(a, b) ==
    \A i \in 1..Len(a) : i <= Len(b) => a[i].ret = b[i].ret

\* C17: two invocations that differ only in the quiet flag and get the same
\* results from the collaborators return the same status, make the same
\* clipboard writes and the same number of sleeps, and write the same
\* messages to the error stream.
C17_QuietIsOutputOnly ==
    (Done /\ first # <<>> /\ SameResults(first[1].results, Results(calls))) =>
        /\ parser.quietSet # first[1].parser.quietSet
        /\ returned = first[1].returned
        /\ ClipWrites = first[1].writes
        /\ Sleeps = first[1].sleeps
        /\ Stderr = first[1].stderr

\* a countdown of two seconds, first shown, then under quiet
C17_Witness ==
    /\ Done
    /\ first # <<>>
    /\ parser.quietSet
    /\ Stdout = <<>>
    /\ Sleeps = 2
    /\ first[1].sleeps = 2
    /\ Len(ClipWrites) = 2
    /\ returned = first[1].returned

----------------------------------------------------------------------------
(* C18 *)

\* before the invocation: the command line is not yet given
Idle ==
    /\ parser = CHOOSE p \in Parsers : TRUE
    /\ pc = "idle"
    /\ timeoutSeconds = 0
    /\ outputTextStream = TextStream("none")
    /\ errorTextStream = <<>>
    /\ entry = NoEntry
    /\ selectedAttribute = <<>>
    /\ value = ""
    /\ found = FALSE
    /\ exitCode = EXIT_SUCCESS
    /\ lastLine = ""
    /\ returned = <<>>
    /\ clipboard = ""
    /\ clipboardBefore = ""
    /\ first = <<>>
    /\ calls = <<>>

\* the command is invoked: with any command line, on any clipboard
Invoke ==
    /\ pc = "idle"
    /\ parser' \in Parsers
    /\ clipboard' \in ClipboardContents
    /\ clipboardBefore' = clipboard'
    /\ pc' = "validateTimeout"
    /\ UNCHANGED <<timeoutSeconds, outputTextStream, errorTextStream, entry,
                   selectedAttribute, value, found, exitCode, lastLine,
                   returned, first, calls>>

NextInvoked ==
    \/ Invoke
    \/ Next

\* the function runs on one thread and every call it makes returns: a
\* block that can be executed is executed
FairSpec == Idle /\ [][NextInvoked]_vars /\ WF_vars(NextInvoked)

\* the counter changes only by the decrement of a tick
C18_CounterStep ==
    pc # "validateTimeout" =>
        /\ timeoutSeconds' <= timeoutSeconds
        /\ timeoutSeconds' # timeoutSeconds =>
              /\ timeoutSeconds' = timeoutSeconds - 1
              /\ pc = "countdown"
              /\ Sleeps' = Sleeps + 1
        /\ Sleeps' # Sleeps =>
              /\ Sleeps' = Sleeps + 1
              /\ timeoutSeconds' = timeoutSeconds - 1

C18_Bounded ==
    /\ Len(ClipWrites) <= 2
    /\ timeoutSeconds >= 0
    /\ pc = "countdown" =>
          /\ toInt(TimeoutGiven) > 0
          /\ timeoutSeconds + Sleeps = toInt(TimeoutGiven)
    /\ CountdownCompleted =>
          /\ timeoutSeconds = 0
          /\ Sleeps = toInt(TimeoutGiven)

\* C18: every invocation returns; in the countdown the counter goes down
\* by one with every tick and never up, so that a countdown started at N
\* makes exactly N sleeps and then reaches the clearing; an invocation
\* makes at most two clipboard writes.
C18_Terminates ==
    /\ <>Done
    /\ [](C18_Bounded)
    /\ [][C18_CounterStep]_vars

\* a countdown of MaxTimeout seconds that has come to its end
C18_Witness ==
    /\ CountdownCompleted
    /\ toInt(TimeoutGiven) = MaxTimeout
    /\ Sleeps = MaxTimeout
    /\ timeoutSeconds = 0

----------------------------------------------------------------------------
(* C19 *)

\* the countdown line written last before item j of w, "" when there is none
PreviousLine(w, j) ==
    LET before == {i \in 1..(j - 1) : IsCountdownItem(w[i])}
    IN  IF before = {} THEN ""
        ELSE w[CHOOSE i \in before : \A k \in before : k <= i].text

\* every countdown line and the clearing message of w comes right after a
\* carriage return, as many spaces as the previous countdown line is long,
\* and a carriage return
ErasedInPlace(w) ==
    \A j \in 1..Len(w) :
        IsStatusItem(w[j]) =>
            /\ j >= 4
            /\ w[j - 3] = Raw("\r")
            /\ w[j - 2] = Raw(Spaces(Len(PreviousLine(w, j))))
            /\ Len(w[j - 2].text) = Len(PreviousLine(w, j))
            /\ w[j - 1] = Raw("\r")

\* C19: before each countdown line and before "Clipboard cleared!" the
\* command writes a carriage return, as many spaces as the countdown line
\* printed before is long (none before the first tick) and a carriage
\* return, so that a shorter line leaves nothing of a longer one; this
\* holds of what is written to the output stream and of what reaches
\* standard output, and lastLine is the countdown line printed last.
C19_StatusLineInPlace ==
    /\ ErasedInPlace(outputTextStream.written)
    /\ ErasedInPlace(Stdout)
    /\ pc \in {"countdown", "done"} =>
          lastLine = PreviousLine(outputTextStream.written,
                                  Len(outputTextStream.written) + 1)

\* from 10 seconds to 9: the 41 characters of the line for 10 are blanked
\* before the 40 characters of the line for 9
C19_Witness ==
    /\ Done
    /\ toInt(TimeoutGiven) = 10
    /\ Len(Stdout) >= 10
    /\ Stdout[6] = Raw(CountdownLine(10))
    /\ Stdout[8] = Raw(Spaces(41))
    /\ Stdout[10] = Raw(CountdownLine(9))
    /\ Len(CountdownLine(9)) = 40

====
